---- MODULE Spec2Model ----
(***************************************************************************)
(* The retrieval gateway of mini-maxi: RAGManager (result cache + circuit  *)
(* breaker in front of a pluggable RagDriver), modelled from               *)
(* src/unnamed/part_006.                                                   *)
(*                                                                         *)
(* retrieve() is an async function: everything up to the                   *)
(* `await this.driver.search(...)` runs in one step (action Retrieve), and *)
(* what follows the await runs in a later step (action Resume).  Several   *)
(* calls may be suspended at the await at the same time; they are kept in  *)
(* the bag `inflight` together with their locals.                          *)
(***************************************************************************)
EXTENDS Integers, Sequences, FiniteSets, Bags, TLC

-----------------------------------------------------------------------------
(* Bounds of the model *)

\* the clock makes at most MaxTicks steps
MaxTicks == 3
\* at most MaxInFlight retrieve calls are suspended at the await at once
MaxInFlight == 2
\* the most rows a query returns in the model (`LIMIT 8` in the program)
MaxRows == 2
\* the largest maxRequests of a rate limit config
MaxLimit == 2
\* the most rateLimit calls made for one key
MaxCalls == 4
\* the largest maxAttempts of a retry call
MaxAttempts == 3
MaxFailures == 6

-----------------------------------------------------------------------------
(* Program constants *)

\* CircuitBreaker constructor defaults
threshold == 3
cooldownMs == 5000
\* RAGManager constructor default
ttlMs == 15000

-----------------------------------------------------------------------------
(* Values *)

RAGProvider == {"pgIlike", "vectorDB"}
CBState == {"CLOSED", "OPEN", "HALF_OPEN"}

\* the queries and the hints values the callers pass
Queries == {"q1", "q2"}
HintsValues == {"undefined", "emptyObject", "circular"}

\* the snippet lists a successful search can return
SnippetLists == {<<>>, <<"s1">>}

\* a variant of EmptyDegraded that carries a snippet
EmptyDegradedKeepsSnippet == [ok |-> FALSE, degraded |-> TRUE, snippets |-> <<"s1">>]

\* `return { ok: true, snippets }`: no degraded field
OkResult(snippets) == [ok |-> TRUE, snippets |-> snippets]
\* `{ ok: false, degraded: true, snippets: [] }`
EmptyDegraded == [ok |-> FALSE, degraded |-> TRUE, snippets |-> <<>>]

\* a variant of SpreadDegraded that copies the result and adds no mark
SpreadKeeps(r) == r

\* `{ ...fallback, degraded: true }`: a copy with the degraded field set
SpreadDegraded(r) ==
  [f \in (DOMAIN r) \cup {"degraded"} |-> IF f = "degraded" THEN TRUE ELSE r[f]]

\* `hints ?? {}`
OrEmptyObject(hints) == IF hints = "undefined" THEN "emptyObject" ELSE hints

\* JSON.stringify of an object: throws a TypeError on a circular structure
JSONStringify(v) ==
  CASE v = "emptyObject" -> [threw |-> FALSE, text |-> "{}"]
    [] v = "circular"    -> [threw |-> TRUE,  text |-> ""]

\* RAGManager.key: `${this.driver.name}:${query}:${JSON.stringify(hints ?? {})}`
\* the three parts of the template string are kept as a tuple
Key(name, query, hints) ==
  LET s == JSONStringify(OrEmptyObject(hints))
  IN  [threw |-> s.threw, key |-> <<name, query, s.text>>]

\* an empty Map
EmptyMap == [k \in {} |-> 0]

\* Map.get: the entry as a set of at most one element ({} is undefined)
MapGet(m, k) == IF k \in DOMAIN m THEN {m[k]} ELSE {}

\* Map.set
MapSet(m, k, v) == [x \in (DOMAIN m) \cup {k} |-> IF x = k THEN v ELSE m[x]]

-----------------------------------------------------------------------------
(* State *)

VARIABLES
  now,             \* Date.now()
  cache,           \* this.cache: Map<string, {at, result}>
  circuitBreaker,  \* this.circuitBreaker: [state, failureCount, nextTryAt]
  inflight,        \* bag of retrieve calls suspended at the await, with their locals
  last,            \* the retrieve call that settled most recently, and with what
  okHist,          \* per fingerprint: the start time and the result of the call that
                   \* last resolved with a successful search, since the last clearCache
  search,          \* one call of a driver's search followed through its awaits: the
                   \* driver, what its environment answers, its position, the
                   \* completion held while the finally block runs, and its outcome
  post,            \* one POST /api/memory/rag at a time followed through its awaits:
                   \* the request, its position, and the response it sent
  limiter,         \* the rate limiter: the config in use, rateLimitStore, the calls
                   \* made so far per key, and what the last call returned
  retrier          \* one call of retry followed through its awaits: its options,
                   \* the loop's locals, its position, what happened so far, its outcome

ragVars == <<now, cache, circuitBreaker, inflight, last, okHist>>
vars == <<now, cache, circuitBreaker, inflight, last, okHist, search, post, limiter, retrier>>

\* this.driver.name: `opts?.provider ?? process.env.RAG_PROVIDER ?? "pgIlike"`,
\* with neither set
provider == "pgIlike"

\* the clock advances by the shortest of the program's durations
TickStep == cooldownMs

-----------------------------------------------------------------------------
(* CircuitBreaker *)

NewCircuitBreaker == [state |-> "CLOSED", failureCount |-> 0, nextTryAt |-> 0]

\* a variant of OnSuccess that closes the breaker and leaves the count as it is
OnSuccessKeepsCount(cb) == [cb EXCEPT !.state = "CLOSED"]

\* a variant of OnSuccess that resets the count and leaves the state as it is
OnSuccessKeepsState(cb) == [cb EXCEPT !.failureCount = 0]

OnSuccess(cb) == [cb EXCEPT !.failureCount = 0, !.state = "CLOSED"]

\* a variant of OnFailure that opens the breaker with no cooldown
OnFailureReopensAtOnce(cb, t) ==
  LET n == cb.failureCount + 1
  IN  IF n >= threshold
      THEN [state |-> "OPEN", failureCount |-> n, nextTryAt |-> t]
      ELSE [cb EXCEPT !.failureCount = n]

\* a variant of OnFailure that sets nextTryAt only when it was never set
OnFailureKeepsNextTry(cb, t) ==
  LET n == cb.failureCount + 1
  IN  IF n >= threshold
      THEN [state |-> "OPEN", failureCount |-> n,
            nextTryAt |-> IF cb.nextTryAt = 0 THEN t + cooldownMs ELSE cb.nextTryAt]
      ELSE [cb EXCEPT !.failureCount = n]

\* a variant of OnFailure that opens one failure late (`>` for `>=`)
OnFailureOpensLate(cb, t) ==
  LET n == cb.failureCount + 1
  IN  IF n > threshold
      THEN [state |-> "OPEN", failureCount |-> n, nextTryAt |-> t + cooldownMs]
      ELSE [cb EXCEPT !.failureCount = n]

\* a variant of OnFailure that counts the failure and never opens the breaker
OnFailureCountsOnly(cb, t) == [cb EXCEPT !.failureCount = cb.failureCount + 1]

OnFailure(cb, t) ==
  LET n == cb.failureCount + 1
  IN  IF n >= threshold
      THEN [state |-> "OPEN", failureCount |-> n, nextTryAt |-> t + cooldownMs]
      ELSE [cb EXCEPT !.failureCount = n]

\* a variant of CanTry that never looks at the state
CanTryNeverBlocks(cb, t) == [ret |-> TRUE, cb |-> cb]

\* a variant of CanTry that lets an OPEN breaker probe before nextTryAt
CanTryIgnoresCooldown(cb, t) ==
  IF cb.state = "OPEN"
  THEN [ret |-> TRUE, cb |-> [cb EXCEPT !.state = "HALF_OPEN"]]
  ELSE [ret |-> TRUE, cb |-> cb]

\* a variant of CanTry that never lets an OPEN breaker probe
CanTryStaysOpen(cb, t) == [ret |-> cb.state # "OPEN", cb |-> cb]

\* canTry returns a boolean and may change the state: [ret, cb]
CanTry(cb, t) ==
  IF cb.state = "OPEN" /\ t >= cb.nextTryAt
  THEN [ret |-> TRUE, cb |-> [cb EXCEPT !.state = "HALF_OPEN"]]
  ELSE [ret |-> cb.state # "OPEN", cb |-> cb]

-----------------------------------------------------------------------------
(* RagDriver.search: what the awaited call can produce *)

Returned(r) == [threw |-> FALSE, result |-> r]
Thrown == [threw |-> TRUE, result |-> EmptyDegraded]

\* PgIlikeDriver.search: no POSTGRES_URL -> ok:false; the query rejects -> the
\* error propagates through the finally; rows -> ok:true
PgIlikeOutcomes ==
  {Returned(OkResult(s)) : s \in SnippetLists} \cup {Returned(EmptyDegraded), Thrown}

\* VectorDbDriver.search: no POSTGRES_URL or an error inside the try -> ok:false;
\* rows -> ok:true
VectorDbOutcomes ==
  {Returned(OkResult(s)) : s \in SnippetLists} \cup {Returned(EmptyDegraded)}

SearchOutcomes(name) == IF name = "vectorDB" THEN VectorDbOutcomes ELSE PgIlikeOutcomes

-----------------------------------------------------------------------------
(* RAGManager.retrieve *)

\* a variant of IsFresh with `<=` for `<`
IsFreshInclusive(cached, t) == cached # {} /\ \E e \in cached : t - e.at <= ttlMs

\* `cached && now - cached.at < this.ttlMs`
IsFresh(cached, t) == cached # {} /\ \E e \in cached : t - e.at < ttlMs

\* a variant of Fallback that never uses the cached entry
FallbackIgnoresCache(cached) == EmptyDegraded

\* `cached?.result ?? { ok: false, degraded: true, snippets: [] }` and the spread
Fallback(cached) ==
  IF cached = {} THEN SpreadDegraded(EmptyDegraded)
  ELSE SpreadDegraded((CHOOSE e \in cached : TRUE).result)

\* a settled call: how it ended (kind), its fingerprint, the `now` it read, and
\* the value it resolved with ({} when it rejected)
Settled(kind, key, at, ret) == [kind |-> kind, key |-> key, at |-> at, ret |-> ret]

\* a variant of RetrieveStep that asks the breaker before it looks at the entry's age
RetrieveStepBreakerFirst(query, hints) ==
  LET k == Key(provider, query, hints) IN
  IF k.threw
  THEN [kind |-> "reject", key |-> <<>>, at |-> now, ret |-> {},
        cb |-> circuitBreaker, cache |-> cache, call |-> {}]
  ELSE
    LET cacheKey == k.key
        cached == MapGet(cache, cacheKey)
        t == now
        ct == CanTry(circuitBreaker, now)
    IN
    IF ~ct.ret
    THEN [kind |-> "blocked", key |-> cacheKey, at |-> t,
          ret |-> {Fallback(cached)}, cb |-> ct.cb, cache |-> cache, call |-> {}]
    ELSE IF IsFresh(cached, t)
    THEN [kind |-> "hit", key |-> cacheKey, at |-> t,
          ret |-> {(CHOOSE e \in cached : TRUE).result},
          cb |-> ct.cb, cache |-> cache, call |-> {}]
    ELSE [kind |-> "search", key |-> cacheKey, at |-> t, ret |-> {}, cb |-> ct.cb,
          cache |-> cache,
          call |-> {[cacheKey |-> cacheKey, cached |-> cached, now |-> t]}]

\* lines 200-217: from the call to its return or to the await.  The outcome of
\* this synchronous part: kind is "reject" (key threw), "hit", "blocked" or
\* "search" (suspended at the await, as the call in `call`)
RetrieveStep(query, hints) ==
  LET k == Key(provider, query, hints) IN
  IF k.threw
  THEN [kind |-> "reject", key |-> <<>>, at |-> now, ret |-> {},
        cb |-> circuitBreaker, cache |-> cache, call |-> {}]
  ELSE
    LET cacheKey == k.key
        cached == MapGet(cache, cacheKey)
        t == now
    IN
    IF IsFresh(cached, t)
    THEN [kind |-> "hit", key |-> cacheKey, at |-> t,
          ret |-> {(CHOOSE e \in cached : TRUE).result},
          cb |-> circuitBreaker, cache |-> cache, call |-> {}]
    ELSE
      LET ct == CanTry(circuitBreaker, now) IN
      IF ~ct.ret
      THEN [kind |-> "blocked", key |-> cacheKey, at |-> t,
            ret |-> {Fallback(cached)}, cb |-> ct.cb, cache |-> cache,
            call |-> {}]
      ELSE [kind |-> "search", key |-> cacheKey, at |-> t, ret |-> {}, cb |-> ct.cb,
            cache |-> cache,
            call |-> {[cacheKey |-> cacheKey, cached |-> cached, now |-> t]}]

Retrieve(query, hints) ==
  LET s == RetrieveStep(query, hints) IN
  /\ s.call # {} => BagCardinality(inflight) < MaxInFlight
  /\ circuitBreaker' = s.cb
  /\ inflight' = inflight (+) SetToBag(s.call)
  /\ cache' = s.cache
  /\ last' = IF s.kind = "search" THEN last ELSE Settled(s.kind, s.key, s.at, s.ret)
  /\ UNCHANGED <<now, okHist, search, post, limiter, retrier>>

\* a variant of SearchOk that does not write the cache
SearchOkNoWrite(c, result) ==
  [cb |-> OnSuccess(circuitBreaker), cache |-> cache, ret |-> result]

\* lines 218-222: the search returned ok=true
SearchOk(c, result) ==
  [cb |-> OnSuccess(circuitBreaker),
   cache |-> MapSet(cache, c.cacheKey, [at |-> c.now, result |-> result]),
   ret |-> result]

\* a variant of SearchNotOk that drops the entry of the fingerprint
SearchNotOkEvicts(c) ==
  [cb |-> OnFailure(circuitBreaker, now),
   cache |-> [k \in (DOMAIN cache) \ {c.cacheKey} |-> cache[k]],
   ret |-> Fallback(c.cached)]

\* lines 223-229: the search returned ok=false
SearchNotOk(c) ==
  [cb |-> OnFailure(circuitBreaker, now), cache |-> cache, ret |-> Fallback(c.cached)]

\* a variant of SearchThrew that marks the stored entry it falls back on
SearchThrewMarksEntry(c) ==
  [cb |-> OnFailure(circuitBreaker, now),
   cache |-> IF c.cacheKey \in DOMAIN cache
             THEN MapSet(cache, c.cacheKey,
                         [at |-> cache[c.cacheKey].at,
                          result |-> SpreadDegraded(cache[c.cacheKey].result)])
             ELSE cache,
   ret |-> Fallback(c.cached)]

\* a variant of SearchThrew that does not notify the breaker
SearchThrewUncounted(c) ==
  [cb |-> circuitBreaker, cache |-> cache, ret |-> Fallback(c.cached)]

\* lines 230-238: the search threw
SearchThrew(c) ==
  [cb |-> OnFailure(circuitBreaker, now), cache |-> cache, ret |-> Fallback(c.cached)]

\* how the awaited search settled: "threw", "ok" or "notok"
OutcomeKind(outcome) ==
  IF outcome.threw THEN "threw" ELSE IF outcome.result.ok THEN "ok" ELSE "notok"

\* a variant of ResumeStep without the `if (result.ok)` test
ResumeStepNoOkTest(c, outcome) ==
  IF outcome.threw THEN SearchThrew(c) ELSE SearchOk(c, outcome.result)

\* lines 217-238: the awaited search settles and the call runs to its return
ResumeStep(c, outcome) ==
  CASE OutcomeKind(outcome) = "threw" -> SearchThrew(c)
    [] OutcomeKind(outcome) = "ok"    -> SearchOk(c, outcome.result)
    [] OutcomeKind(outcome) = "notok" -> SearchNotOk(c)

Resume(c, outcome) ==
  LET s == ResumeStep(c, outcome) IN
  /\ circuitBreaker' = s.cb
  /\ cache' = s.cache
  /\ inflight' = inflight (-) SetToBag({c})
  /\ last' = Settled(OutcomeKind(outcome), c.cacheKey, c.now, {s.ret})
  /\ okHist' = IF OutcomeKind(outcome) = "ok"
               THEN MapSet(okHist, c.cacheKey, [at |-> c.now, ret |-> s.ret])
               ELSE okHist
  /\ UNCHANGED <<now, search, post, limiter, retrier>>

NoCall == Settled("none", <<>>, 0, {})

\* no request is being handled and none was answered
NoPost ==
  [pc |-> "idle", session |-> FALSE,
   body |-> [json |-> FALSE, query |-> {}, hints |-> "undefined"], status |-> 0, result |-> {}]

\* the rate limiter is not in use
NoLimiter ==
  [config |-> [maxRequests |-> 1, windowMs |-> TickStep, includeHeaders |-> TRUE],
   store |-> EmptyMap, calls |-> EmptyMap, result |-> {}]

\* retry is not in use
NoRetry ==
  [maxAttempts |-> 1, initialDelay |-> 0, maxDelay |-> 0, backoffMultiplier |-> 1,
   onRetry |-> "absent", fails |-> {}, pc |-> "idle", attempt |-> 0, delay |-> 0,
   lastError |-> {}, events |-> <<>>, outcome |-> {}]

\* no driver call is followed step by step: the manager takes the outcome of a
\* search from SearchOutcomes
NoSearch ==
  [driver |-> provider, url |-> FALSE, apiKey |-> FALSE, embed |-> "vector",
   query |-> [failed |-> TRUE, rows |-> <<>>], pc |-> "idle", pending |-> {}, out |-> {}]

\* a variant of ClearCache that also replaces the breaker by a new one
ClearCacheResetsBreaker ==
  /\ cache' = EmptyMap
  /\ circuitBreaker' = NewCircuitBreaker
  /\ last' = NoCall
  /\ okHist' = EmptyMap
  /\ UNCHANGED <<now, inflight, search, post, limiter, retrier>>

\* RAGManager.clearCache; the record of the last settled call restarts with it
ClearCache ==
  /\ cache' = EmptyMap
  /\ last' = NoCall
  /\ okHist' = EmptyMap
  /\ UNCHANGED <<now, circuitBreaker, inflight, search, post, limiter, retrier>>

\* time passes
Tick ==
  /\ now + TickStep <= MaxTicks * TickStep
  /\ now' = now + TickStep
  /\ UNCHANGED <<cache, circuitBreaker, inflight, last, okHist, search, post, limiter, retrier>>

-----------------------------------------------------------------------------
(* Specification *)

Init ==
  /\ now = 0
  /\ cache = EmptyMap
  /\ circuitBreaker = NewCircuitBreaker
  /\ inflight = EmptyBag
  /\ last = NoCall
  /\ okHist = EmptyMap
  /\ search = NoSearch
  /\ post = NoPost
  /\ limiter = NoLimiter
  /\ retrier = NoRetry

DoRetrieve == \E query \in Queries, hints \in HintsValues : Retrieve(query, hints)

DoResume ==
  \E c \in BagToSet(inflight), outcome \in SearchOutcomes(provider) : Resume(c, outcome)

Next == DoRetrieve \/ DoResume \/ ClearCache \/ Tick

Spec == Init /\ [][Next]_vars

-----------------------------------------------------------------------------
(* The drivers: one call of search, await by await *)

\* confidences and distances are in thousandths: One stands for 1
One == 1000
\* `confidence: 0.6`
pgIlikeConfidence == 600

\* the values of `distance` (L2, so never negative) the query returns, from an
\* exact match to farther than 1
Distances == {0, 250, 1000, 1750}

\* what the embeddings endpoint answers: an embedding, a rejected fetch, a
\* non-2xx status, a body that is not JSON, JSON without data[0].embedding
EmbedResponses == {"vector", "networkError", "httpError", "invalidJson", "noEmbedding"}

\* the sequences over S of length at most n
SeqsUpTo(S, n) == UNION {[1..k -> S] : k \in 0..n}

\* rows of the ILIKE query: the columns the confidence is computed from are none
PgIlikeRows == SeqsUpTo({[content |-> "s1"]}, MaxRows)

\* rows of the distance query, nearest first (ORDER BY embedding <-> q)
VectorDbRows ==
  {r \in SeqsUpTo({[content |-> "s1", distance |-> d] : d \in Distances}, MaxRows) :
     \A i, j \in DOMAIN r : i <= j => r[i].distance <= r[j].distance}

\* what awaiting the query gives: a rejection (store unreachable, query failed)
\* or the rows
QueryResponses(name) ==
  {[failed |-> TRUE, rows |-> <<>>]}
    \cup {[failed |-> FALSE, rows |-> r] :
            r \in IF name = "vectorDB" THEN VectorDbRows ELSE PgIlikeRows}

\* a search call at its first statement, with an environment: POSTGRES_URL and
\* OPENAI_API_KEY set or not, and the answers of the endpoint and of the store
SearchCalls ==
  UNION {
    {[driver |-> d, url |-> u, apiKey |-> k, embed |-> e, query |-> q,
      pc |-> "start", pending |-> {}, out |-> {}] :
       u \in BOOLEAN, k \in BOOLEAN, e \in EmbedResponses, q \in QueryResponses(d)} :
    d \in RAGProvider}

\* embedText: throws without a key, when fetch rejects, on a non-ok status,
\* when the body is not JSON and when data[0].embedding is not an array
EmbedText(apiKey, response) ==
  IF ~apiKey THEN [threw |-> TRUE]
  ELSE [threw |-> response # "vector"]

MathMax(a, b) == IF a >= b THEN a ELSE b

\* `r.distance || 0`
OrZero(d) == IF d = 0 THEN 0 ELSE d

\* a variant of Confidence without the lower clamp
ConfidenceUnclamped(distance) == One - OrZero(distance)

\* `Math.max(0, 1 - Number(r.distance || 0))`
Confidence(distance) == MathMax(0, One - OrZero(distance))

\* rows.map(...) of PgIlikeDriver
PgIlikeSnippets(rows) ==
  [i \in DOMAIN rows |-> [source |-> "internalDocs", confidence |-> pgIlikeConfidence]]

\* rows.map(...) of VectorDbDriver
VectorDbSnippets(rows) ==
  [i \in DOMAIN rows |->
     [source |-> "internalDocs", confidence |-> Confidence(rows[i].distance)]]

\* lines 73-77: without POSTGRES_URL return ok:false, else open the client
PgIlikeStart ==
  /\ search.driver = "pgIlike" /\ search.pc = "start"
  /\ search' = IF ~search.url
               THEN [search EXCEPT !.pc = "done", !.out = {Returned(EmptyDegraded)}]
               ELSE [search EXCEPT !.pc = "query"]
  /\ UNCHANGED <<ragVars, post, limiter, retrier>>

\* lines 78-94: the awaited query rejects, and the error leaves the try block
\* (there is no catch clause), or gives the rows, and the result is returned
PgIlikeQuery ==
  /\ search.driver = "pgIlike" /\ search.pc = "query"
  /\ search' = [search EXCEPT
                  !.pc = "finally",
                  !.pending = IF search.query.failed THEN {Thrown}
                              ELSE {Returned(OkResult(PgIlikeSnippets(search.query.rows)))}]
  /\ UNCHANGED <<ragVars, post, limiter, retrier>>

\* lines 95-97: sql.end() resolves and the held completion takes effect
PgIlikeFinally ==
  /\ search.driver = "pgIlike" /\ search.pc = "finally"
  /\ search' = [search EXCEPT !.pc = "done", !.pending = {}, !.out = search.pending]
  /\ UNCHANGED <<ragVars, post, limiter, retrier>>

\* a variant of VectorDbCatch that rethrows
VectorDbCatchRethrows == Thrown

\* lines 133-135: the catch clause
VectorDbCatch == Returned(EmptyDegraded)

\* lines 105-107: without POSTGRES_URL return ok:false, else open the client
VectorDbStart ==
  /\ search.driver = "vectorDB" /\ search.pc = "start"
  /\ search' = IF ~search.url
               THEN [search EXCEPT !.pc = "done", !.out = {Returned(EmptyDegraded)}]
               ELSE [search EXCEPT !.pc = "embed"]
  /\ UNCHANGED <<ragVars, post, limiter, retrier>>

\* lines 110-111: embedText throws, and the catch clause takes over, or gives
\* the query vector
VectorDbEmbed ==
  /\ search.driver = "vectorDB" /\ search.pc = "embed"
  /\ search' = IF EmbedText(search.apiKey, search.embed).threw
               THEN [search EXCEPT !.pc = "finally", !.pending = {VectorDbCatch}]
               ELSE [search EXCEPT !.pc = "query"]
  /\ UNCHANGED <<ragVars, post, limiter, retrier>>

\* lines 113-132: the awaited query rejects, and the catch clause takes over,
\* or gives the rows, and the result is returned
VectorDbQuery ==
  /\ search.driver = "vectorDB" /\ search.pc = "query"
  /\ search' = [search EXCEPT
                  !.pc = "finally",
                  !.pending = IF search.query.failed THEN {VectorDbCatch}
                              ELSE {Returned(OkResult(VectorDbSnippets(search.query.rows)))}]
  /\ UNCHANGED <<ragVars, post, limiter, retrier>>

\* lines 135-137: sql.end() resolves and the held completion takes effect
VectorDbFinally ==
  /\ search.driver = "vectorDB" /\ search.pc = "finally"
  /\ search' = [search EXCEPT !.pc = "done", !.pending = {}, !.out = search.pending]
  /\ UNCHANGED <<ragVars, post, limiter, retrier>>

InitDriver ==
  /\ now = 0
  /\ cache = EmptyMap
  /\ circuitBreaker = NewCircuitBreaker
  /\ inflight = EmptyBag
  /\ last = NoCall
  /\ okHist = EmptyMap
  /\ search \in SearchCalls
  /\ post = NoPost
  /\ limiter = NoLimiter
  /\ retrier = NoRetry

NextDriver ==
  \/ PgIlikeStart
  \/ PgIlikeQuery
  \/ PgIlikeFinally
  \/ VectorDbStart
  \/ VectorDbEmbed
  \/ VectorDbQuery
  \/ VectorDbFinally

SpecDriver == InitDriver /\ [][NextDriver]_vars

-----------------------------------------------------------------------------
(* POST /api/memory/rag: one request at a time, await by await *)

\* `session?.user` of the awaited auth(): absent or present
Sessions == BOOLEAN

\* request bodies: text that is not JSON, and JSON objects with `query` absent,
\* empty or a query and `hints` absent or {} (parsed JSON has no cycles)
Bodies ==
  {[json |-> FALSE, query |-> {}, hints |-> "undefined"]}
    \cup {[json |-> TRUE, query |-> q, hints |-> h] :
            q \in {{}, {""}} \cup {{x} : x \in Queries},
            h \in {"undefined", "emptyObject"}}

\* `await request.json().catch(() => ({}))` and ragRequestSchema.safeParse:
\* query is z.string().min(1), hints an optional record
SafeParse(body) ==
  IF body.json /\ body.query # {} /\ body.query # {""}
  THEN [success |-> TRUE, query |-> CHOOSE q \in body.query : TRUE, hints |-> body.hints]
  ELSE [success |-> FALSE, query |-> "", hints |-> "undefined"]

\* the status the handler answers with once retrieve has settled: 200 with the
\* result when it resolved, 500 from the catch clause when it rejected
RouteStatus(kind) == IF kind = "reject" THEN 500 ELSE 200

Answered(status, result) == [post EXCEPT !.pc = "done", !.status = status, !.result = result]

\* line 7: a request arrives while none is being handled
PostReceive(session, body) ==
  /\ post.pc \in {"idle", "done"}
  /\ post' = [pc |-> "auth", session |-> session, body |-> body, status |-> 0, result |-> {}]
  /\ UNCHANGED <<ragVars, search, limiter, retrier>>

\* lines 8-11: auth() resolves; without a user the answer is 401
PostAuth ==
  /\ post.pc = "auth"
  /\ post' = IF ~post.session THEN Answered(401, {}) ELSE [post EXCEPT !.pc = "json"]
  /\ UNCHANGED <<ragVars, search, limiter, retrier>>

\* lines 12-30: the body is read and validated (400 when it does not parse or
\* has no query), then `new RAGManager()`: a manager with an empty cache and a
\* new breaker, used for this request only
PostConstruct ==
  /\ post.pc = "json"
  /\ IF ~SafeParse(post.body).success \/ SafeParse(post.body).query = ""
     THEN /\ post' = Answered(400, {})
          /\ UNCHANGED <<cache, circuitBreaker>>
     ELSE /\ post' = [post EXCEPT !.pc = "constructed"]
          /\ cache' = EmptyMap
          /\ circuitBreaker' = NewCircuitBreaker
  /\ UNCHANGED <<now, inflight, last, okHist, search, limiter, retrier>>

\* lines 31-33, in the same turn as the construction: retrieve runs on the new
\* manager to its return or to its await
PostRetrieve ==
  LET p == SafeParse(post.body)
      s == RetrieveStep(p.query, p.hints)
  IN  /\ post.pc = "constructed"
      /\ circuitBreaker' = s.cb
      /\ cache' = s.cache
      /\ inflight' = inflight (+) SetToBag(s.call)
      /\ last' = IF s.kind = "search" THEN last ELSE Settled(s.kind, s.key, s.at, s.ret)
      /\ post' = IF s.kind = "search" THEN [post EXCEPT !.pc = "awaiting"]
                 ELSE Answered(RouteStatus(s.kind), s.ret)
      /\ UNCHANGED <<now, okHist, search, limiter, retrier>>

\* lines 33-48: the awaited retrieve settles and the response is sent
PostRespond(c, outcome) ==
  LET s == ResumeStep(c, outcome) IN
  /\ post.pc = "awaiting"
  /\ circuitBreaker' = s.cb
  /\ cache' = s.cache
  /\ inflight' = inflight (-) SetToBag({c})
  /\ last' = Settled(OutcomeKind(outcome), c.cacheKey, c.now, {s.ret})
  /\ okHist' = IF OutcomeKind(outcome) = "ok"
               THEN MapSet(okHist, c.cacheKey, [at |-> c.now, ret |-> s.ret])
               ELSE okHist
  /\ post' = Answered(RouteStatus(OutcomeKind(outcome)), {s.ret})
  /\ UNCHANGED <<now, search, limiter, retrier>>

\* time passes, except inside the turn that constructs the manager and calls it
PostTick ==
  /\ post.pc # "constructed"
  /\ now + TickStep <= MaxTicks * TickStep
  /\ now' = now + TickStep
  /\ UNCHANGED <<cache, circuitBreaker, inflight, last, okHist, search, post, limiter, retrier>>

DoPostReceive == \E session \in Sessions, body \in Bodies : PostReceive(session, body)

DoPostRespond ==
  \E c \in BagToSet(inflight), outcome \in SearchOutcomes(provider) : PostRespond(c, outcome)

NextRoute ==
  DoPostReceive \/ PostAuth \/ PostConstruct \/ PostRetrieve \/ DoPostRespond \/ PostTick

SpecRoute == Init /\ [][NextRoute]_vars

-----------------------------------------------------------------------------
(* rateLimit and the cleanup of rateLimitStore *)

\* `${clientId}:${request.nextUrl.pathname}` of the requests: two clients, one path
RateLimitKeys == {"ip:a:/api/test", "ip:b:/api/test"}

\* the configs: maxRequests >= 1, a window of two clock steps, headers on or off
RateLimitConfigs ==
  {[maxRequests |-> m, windowMs |-> 2 * TickStep, includeHeaders |-> h] :
     m \in 1..MaxLimit, h \in BOOLEAN}

\* Math.ceil(a / b) for b > 0
CeilDiv(a, b) == IF a <= 0 THEN -((-a) \div b) ELSE (a + b - 1) \div b

\* createSuccessResponse
CreateSuccessResponse == [success |-> TRUE, response |-> {}]

\* createRateLimitResponse: status 429; with includeHeaders the four headers,
\* X-RateLimit-Limit set from entry.count
CreateRateLimitResponse(entry, includeHeaders, t) ==
  [success |-> FALSE,
   response |->
     {[status |-> 429,
       headers |->
         IF includeHeaders
         THEN [h \in {"X-RateLimit-Limit", "X-RateLimit-Remaining",
                      "X-RateLimit-Reset", "Retry-After"} |->
                 CASE h = "X-RateLimit-Limit" -> entry.count
                   [] h = "X-RateLimit-Remaining" -> 0
                   [] h = "X-RateLimit-Reset" -> entry.resetTime
                   [] h = "Retry-After" -> CeilDiv(entry.resetTime - t, 1000)]
         ELSE EmptyMap]}]

\* a variant of RateLimitStep for which a window is over at its resetTime
RateLimitStepExpiresAtReset(store, config, key, t) ==
  LET found == MapGet(store, key) IN
  IF found = {} \/ (CHOOSE e \in found : TRUE).resetTime <= t
  THEN [store |-> MapSet(store, key, [count |-> 1, resetTime |-> t + config.windowMs]),
        result |-> CreateSuccessResponse]
  ELSE
    LET old == CHOOSE e \in found : TRUE
        entry == [old EXCEPT !.count = old.count + 1]
    IN  [store |-> MapSet(store, key, entry),
         result |-> IF entry.count > config.maxRequests
                    THEN CreateRateLimitResponse(entry, config.includeHeaders, t)
                    ELSE CreateSuccessResponse]

\* a variant of RateLimitStep that lets one more request through
RateLimitStepOneMore(store, config, key, t) ==
  LET found == MapGet(store, key) IN
  IF found = {} \/ (CHOOSE e \in found : TRUE).resetTime < t
  THEN [store |-> MapSet(store, key, [count |-> 1, resetTime |-> t + config.windowMs]),
        result |-> CreateSuccessResponse]
  ELSE
    LET old == CHOOSE e \in found : TRUE
        entry == [old EXCEPT !.count = old.count + 1]
    IN  [store |-> MapSet(store, key, entry),
         result |-> IF entry.count > config.maxRequests + 1
                    THEN CreateRateLimitResponse(entry, config.includeHeaders, t)
                    ELSE CreateSuccessResponse]

\* rateLimit, lines 524-547: a missing or expired entry starts a window with
\* count 1; otherwise the entry's count is incremented in place and the call is
\* blocked when it exceeds maxRequests
RateLimitStep(store, config, key, t) ==
  LET found == MapGet(store, key) IN
  IF found = {} \/ (CHOOSE e \in found : TRUE).resetTime < t
  THEN [store |-> MapSet(store, key, [count |-> 1, resetTime |-> t + config.windowMs]),
        result |-> CreateSuccessResponse]
  ELSE
    LET old == CHOOSE e \in found : TRUE
        entry == [old EXCEPT !.count = old.count + 1]
    IN  [store |-> MapSet(store, key, entry),
         result |-> IF entry.count > config.maxRequests
                    THEN CreateRateLimitResponse(entry, config.includeHeaders, t)
                    ELSE CreateSuccessResponse]

\* the calls recorded for a key
CallsOf(key) == IF key \in DOMAIN limiter.calls THEN limiter.calls[key] ELSE <<>>

RateLimit(key) ==
  LET s == RateLimitStep(limiter.store, limiter.config, key, now) IN
  /\ Len(CallsOf(key)) < MaxCalls
  /\ limiter' = [limiter EXCEPT
                   !.store = s.store,
                   !.calls = MapSet(limiter.calls, key,
                                    Append(CallsOf(key), [at |-> now, success |-> s.result.success])),
                   !.result = {[key |-> key, at |-> now, success |-> s.result.success,
                                response |-> s.result.response]}]
  /\ UNCHANGED <<ragVars, search, post, retrier>>

\* a variant of Cleanup that also deletes the entries with resetTime = now
CleanupAtReset ==
  /\ limiter' = [limiter EXCEPT
                   !.store = [k \in {x \in DOMAIN limiter.store : limiter.store[x].resetTime > now}
                                |-> limiter.store[k]]]
  /\ UNCHANGED <<ragVars, search, post, retrier>>

\* the setInterval callback: delete the entries with resetTime < now
Cleanup ==
  /\ limiter' = [limiter EXCEPT
                   !.store = [k \in {x \in DOMAIN limiter.store : ~(limiter.store[x].resetTime < now)}
                                |-> limiter.store[k]]]
  /\ UNCHANGED <<ragVars, search, post, retrier>>

InitRateLimit ==
  /\ now = 0
  /\ cache = EmptyMap
  /\ circuitBreaker = NewCircuitBreaker
  /\ inflight = EmptyBag
  /\ last = NoCall
  /\ okHist = EmptyMap
  /\ search = NoSearch
  /\ post = NoPost
  /\ retrier = NoRetry
  /\ limiter \in {[config |-> c, store |-> EmptyMap, calls |-> EmptyMap, result |-> {}] :
                    c \in RateLimitConfigs}

DoRateLimit == \E key \in RateLimitKeys : RateLimit(key)

NextRateLimit == DoRateLimit \/ Cleanup \/ Tick

SpecRateLimit == InitRateLimit /\ [][NextRateLimit]_vars

-----------------------------------------------------------------------------
(* retry: one call, await by await *)

\* the defaults of the options
defaultMaxDelay == 10000
defaultBackoffMultiplier == 2

\* the options of the calls: maxAttempts >= 1, an initialDelay that stays under
\* maxDelay when multiplied, one that does not and one above maxDelay, and
\* onRetry absent, a callback that returns, or a callback that throws
RetryOptions ==
  {[maxAttempts |-> m, initialDelay |-> d, maxDelay |-> defaultMaxDelay,
    backoffMultiplier |-> defaultBackoffMultiplier, onRetry |-> o] :
     m \in 1..MaxAttempts, d \in {1000, 6000, 20000}, o \in {"absent", "returns", "throws"}}

\* a call of retry at its first statement: its options and fn, given by the set
\* of invocations (first, second, ...) whose promise rejects
RetryCalls ==
  {[maxAttempts |-> o.maxAttempts, initialDelay |-> o.initialDelay, maxDelay |-> o.maxDelay,
    backoffMultiplier |-> o.backoffMultiplier, onRetry |-> o.onRetry, fails |-> f,
    pc |-> "start", attempt |-> 0, delay |-> 0, lastError |-> {}, events |-> <<>>,
    outcome |-> {}] :
     o \in RetryOptions, f \in SUBSET (1..MaxAttempts)}

MathMin(a, b) == IF a <= b THEN a ELSE b

Event(ev, n) == [ev |-> ev, n |-> n]

\* line 326: `throw errors.internal(..., lastError)`, an AppError of type INTERNAL
ThrowInternal(r) ==
  [r EXCEPT !.pc = "done",
            !.outcome = {[kind |-> "rejected", type |-> "INTERNAL", cause |-> r.lastError]}]

\* lines 306-308: the loop test and, when it holds, the invocation of fn
LoopTest(r) ==
  IF r.attempt <= r.maxAttempts
  THEN [r EXCEPT !.pc = "fn", !.events = Append(r.events, Event("invoke", r.attempt))]
  ELSE ThrowInternal(r)

\* line 308: fn's promise resolved and retry returns its value
FnResolved(r) ==
  [r EXCEPT !.pc = "done",
            !.events = Append(r.events, Event("resolved", r.attempt)),
            !.outcome = {[kind |-> "returned", value |-> r.attempt]}]

\* lines 316-319: onRetry?.(attempt, lastError), then the timer is started; an
\* onRetry that throws ends retry with its error
CallOnRetry(r) ==
  CASE r.onRetry = "absent" ->
         [r EXCEPT !.pc = "sleep", !.events = Append(r.events, Event("wait", r.delay))]
    [] r.onRetry = "returns" ->
         [r EXCEPT !.pc = "sleep",
                   !.events = r.events \o <<Event("onRetry", r.attempt), Event("wait", r.delay)>>]
    [] r.onRetry = "throws" ->
         [r EXCEPT !.pc = "done",
                   !.events = Append(r.events, Event("onRetry", r.attempt)),
                   !.outcome = {[kind |-> "rejected", type |-> "onRetry", cause |-> {}]}]

\* a variant of FnRejected that gives up one attempt early
FnRejectedBreaksEarly(r) ==
  LET c == [r EXCEPT !.lastError = {r.attempt},
                     !.events = Append(r.events, Event("rejected", r.attempt))]
  IN  IF c.attempt >= c.maxAttempts - 1 THEN ThrowInternal(c) ELSE CallOnRetry(c)

\* a variant of FnRejected that leaves the loop by its test only
FnRejectedNoBreak(r) ==
  LET c == [r EXCEPT !.lastError = {r.attempt},
                     !.events = Append(r.events, Event("rejected", r.attempt))]
  IN  CallOnRetry(c)

\* lines 309-319: fn's promise rejected: keep the error, break out after the
\* last attempt and throw, else notify and wait
FnRejected(r) ==
  LET c == [r EXCEPT !.lastError = {r.attempt},
                     !.events = Append(r.events, Event("rejected", r.attempt))]
  IN  IF c.attempt = c.maxAttempts THEN ThrowInternal(c) ELSE CallOnRetry(c)

\* lines 322 and 306: the timer fired: the next delay, attempt++
Backoff(r) ==
  [r EXCEPT !.delay = MathMin(r.delay * r.backoffMultiplier, r.maxDelay),
            !.attempt = r.attempt + 1]

\* lines 295-308: the call up to its first await
RetryStart ==
  /\ retrier.pc = "start"
  /\ retrier' = LoopTest([retrier EXCEPT !.delay = retrier.initialDelay, !.attempt = 1])
  /\ UNCHANGED <<ragVars, search, post, limiter>>

\* lines 308-319: the awaited fn() settles
RetryFnSettles ==
  /\ retrier.pc = "fn"
  /\ retrier' = IF retrier.attempt \in retrier.fails
                THEN FnRejected(retrier) ELSE FnResolved(retrier)
  /\ UNCHANGED <<ragVars, search, post, limiter>>

\* lines 319-322, 306-308: the timer fires and the loop goes round
RetryWake ==
  /\ retrier.pc = "sleep"
  /\ retrier' = LoopTest(Backoff(retrier))
  /\ UNCHANGED <<ragVars, search, post, limiter>>

InitRetry ==
  /\ now = 0
  /\ cache = EmptyMap
  /\ circuitBreaker = NewCircuitBreaker
  /\ inflight = EmptyBag
  /\ last = NoCall
  /\ okHist = EmptyMap
  /\ search = NoSearch
  /\ post = NoPost
  /\ limiter = NoLimiter
  /\ retrier \in RetryCalls

NextRetry == RetryStart \/ RetryFnSettles \/ RetryWake

\* fn's promise settles and the timer fires
SpecRetry == InitRetry /\ [][NextRetry]_vars /\ WF_vars(NextRetry)

-----------------------------------------------------------------------------
(* Properties *)

\* the calls retrieve(query, hints) whose fingerprint can be computed
\* ---- the CircuitBreaker class alone: its three methods called in any order
\* and at any time, as any caller of the class may do

BreakerCanTry ==
  /\ circuitBreaker' = CanTry(circuitBreaker, now).cb
  /\ UNCHANGED <<now, cache, inflight, last, okHist, search, post, limiter, retrier>>

BreakerOnSuccess ==
  /\ circuitBreaker' = OnSuccess(circuitBreaker)
  /\ UNCHANGED <<now, cache, inflight, last, okHist, search, post, limiter, retrier>>

\* failureCount is a JS number; the model stops counting at MaxFailures
BreakerOnFailure ==
  /\ circuitBreaker.failureCount < MaxFailures
  /\ circuitBreaker' = OnFailure(circuitBreaker, now)
  /\ UNCHANGED <<now, cache, inflight, last, okHist, search, post, limiter, retrier>>

NextBreaker == BreakerCanTry \/ BreakerOnSuccess \/ BreakerOnFailure \/ Tick

SpecBreaker == Init /\ [][NextBreaker]_vars

\* ---- the manager under fair scheduling: the clock advances and every
\* suspended strategy call settles

SpecRecover == Init /\ [][Next]_vars /\ WF_vars(Tick) /\ WF_vars(DoResume)

Calls == {in \in Queries \X HintsValues : ~Key(provider, in[1], in[2]).threw}
KeyOf(in) == Key(provider, in[1], in[2]).key
StepOf(in) == RetrieveStep(in[1], in[2])

\* the kinds of a call that resolved with a value
Resolved == {"hit", "blocked", "ok", "notok", "threw"}

\* a copy of a RAGResult marked degraded, field by field
Degraded(r) == [ok |-> r.ok, degraded |-> TRUE, snippets |-> r.snippets]

\* the breaker blocks calls now: OPEN and the cooldown has not elapsed
Blocking == circuitBreaker.state = "OPEN" /\ now < circuitBreaker.nextTryAt

\* the entry stored under a call's fingerprint is younger than the TTL
HasFresh(in) == KeyOf(in) \in DOMAIN cache /\ now - cache[KeyOf(in)].at < ttlMs
\* an entry is stored under a call's fingerprint and it is not younger than the TTL
HasStale(in) == KeyOf(in) \in DOMAIN cache /\ now - cache[KeyOf(in)].at >= ttlMs

\* C1 as stated: whenever the call that settled last was a retrieve of the same
\* fingerprint started less than ttl ago, a retrieve issued now returns the result
\* that call returned and does not invoke the strategy.
C1_AsStated ==
  \A in \in Calls :
    (last.kind \in Resolved /\ last.key = KeyOf(in) /\ now - last.at < ttlMs)
      => (StepOf(in).kind # "search" /\ StepOf(in).ret = last.ret)

\* C1 amended: if a retrieve of a fingerprint resolved with the result of a
\* successful strategy call and started less than ttl ago (no clearCache and no
\* other successful strategy call for the fingerprint since), a retrieve of that
\* fingerprint issued now is a cache hit: it returns the identical result and
\* does not invoke the strategy.
C1_CacheFreshness ==
  \A in \in Calls :
    (KeyOf(in) \in DOMAIN okHist /\ now - okHist[KeyOf(in)].at < ttlMs)
      => /\ StepOf(in).kind = "hit"
         /\ StepOf(in).call = {}
         /\ StepOf(in).ret = {okHist[KeyOf(in)].ret}

\* a second retrieve of a fingerprint was served from the cache, later than the
\* first one started, with the result the first obtained from the strategy
C1_Witness ==
  /\ last.kind = "hit"
  /\ last.key \in DOMAIN okHist
  /\ last.ret = {okHist[last.key].ret}
  /\ last.at > okHist[last.key].at

\* C2: a cached entry is returned as a hit only while now - insertedAt < ttl;
\* with now - insertedAt >= ttl and the breaker permitting calls, retrieve
\* invokes the strategy instead.
C2_CacheExpiry ==
  \A in \in Calls :
    /\ StepOf(in).kind = "hit" => HasFresh(in)
    /\ (HasStale(in) /\ ~Blocking) => (StepOf(in).kind = "search" /\ StepOf(in).call # {})

\* a call is suspended in the strategy although it found an entry, of age >= ttl
C2_Witness ==
  \E c \in BagToSet(inflight) : \E e \in c.cached : c.now - e.at >= ttlMs

\* C3 as stated: with failureCount at the threshold right after a failure, any
\* retrieve of an uncached fingerprint returns the empty degraded result and
\* does not invoke the strategy.
C3_AsStated ==
  \A in \in Calls :
    (circuitBreaker.failureCount = threshold /\ last.kind \in {"notok", "threw"}
       /\ KeyOf(in) \notin DOMAIN cache)
      => (StepOf(in).kind = "blocked" /\ StepOf(in).ret = {EmptyDegraded})

\* C3 amended: with failureCount at the threshold and the cooldown not yet
\* elapsed (now < nextTryAt), any retrieve of an uncached fingerprint returns
\* the empty degraded result and does not invoke the strategy.
C3_BreakerOpens ==
  \A in \in Calls :
    (circuitBreaker.failureCount = threshold /\ now < circuitBreaker.nextTryAt
       /\ KeyOf(in) \notin DOMAIN cache)
      => /\ StepOf(in).kind = "blocked"
         /\ StepOf(in).call = {}
         /\ StepOf(in).ret = {EmptyDegraded}

\* a retrieve of an uncached fingerprint was answered with the empty degraded
\* result while failureCount was at the threshold, before the cooldown elapsed
C3_Witness ==
  /\ last.kind = "blocked"
  /\ last.ret = {EmptyDegraded}
  /\ last.key \notin DOMAIN cache
  /\ circuitBreaker.failureCount = threshold
  /\ last.at < circuitBreaker.nextTryAt

\* C4: with the breaker OPEN and the cooldown elapsed, a retrieve that misses the
\* fresh cache invokes the strategy (as the HALF_OPEN probe); a strategy call that
\* succeeds leaves the breaker CLOSED with failureCount 0; and while CLOSED every
\* retrieve that misses the fresh cache invokes the strategy.
C4_HalfOpenRecovery ==
  /\ \A in \in Calls :
       (circuitBreaker.state = "OPEN" /\ now >= circuitBreaker.nextTryAt /\ ~HasFresh(in))
         => /\ StepOf(in).kind = "search"
            /\ StepOf(in).call # {}
            /\ StepOf(in).cb.state = "HALF_OPEN"
  /\ \A c \in BagToSet(inflight) : \A o \in SearchOutcomes(provider) :
       (~o.threw /\ o.result.ok)
         => /\ ResumeStep(c, o).cb.state = "CLOSED"
            /\ ResumeStep(c, o).cb.failureCount = 0
  /\ \A in \in Calls :
       (circuitBreaker.state = "CLOSED" /\ ~HasFresh(in))
         => (StepOf(in).kind = "search" /\ StepOf(in).call # {})

\* the breaker had opened, a call started after the cooldown succeeded, and the
\* breaker is CLOSED again
C4_Witness ==
  /\ last.kind = "ok"
  /\ circuitBreaker.nextTryAt > 0
  /\ last.at >= circuitBreaker.nextTryAt
  /\ circuitBreaker.state = "CLOSED"
  /\ circuitBreaker.failureCount = 0

\* C5: with an entry older than the TTL under the fingerprint and the breaker
\* OPEN before the cooldown has elapsed, retrieve returns the stored result with
\* degraded = true, whatever its age, and does not invoke the strategy.
C5_StaleFallback ==
  \A in \in Calls :
    (HasStale(in) /\ Blocking)
      => /\ StepOf(in).kind = "blocked"
         /\ StepOf(in).call = {}
         /\ StepOf(in).ret = {Degraded(cache[KeyOf(in)].result)}

\* a blocked retrieve returned a stored result, older than the TTL, marked degraded
C5_Witness ==
  /\ last.kind = "blocked"
  /\ last.key \in DOMAIN cache
  /\ last.at - cache[last.key].at >= ttlMs
  /\ last.ret = {Degraded(cache[last.key].result)}

\* C6 as stated: no retrieve call ever rejects.
C6_NeverRejects == last.kind # "reject"

\* C7: a retrieve that finds an entry younger than the TTL returns the stored
\* result as it is stored and changes neither the breaker (state, failureCount,
\* nextTryAt) nor the cache, and does not invoke the strategy, whatever the
\* breaker's state.
C7_FreshHitIsPure ==
  \A in \in Calls :
    HasFresh(in)
      => /\ StepOf(in).kind = "hit"
         /\ StepOf(in).ret = {cache[KeyOf(in)].result}
         /\ StepOf(in).cb = circuitBreaker
         /\ StepOf(in).cache = cache
         /\ StepOf(in).call = {}

\* a hit was served, undegraded, at a time when the breaker was OPEN with its
\* cooldown elapsed, and the breaker is still OPEN
C7_Witness ==
  /\ last.kind = "hit"
  /\ last.at = now
  /\ \A r \in last.ret : "degraded" \notin DOMAIN r
  /\ circuitBreaker.state = "OPEN"
  /\ now >= circuitBreaker.nextTryAt

\* C8: no retrieve issued while the breaker is OPEN with now < nextTryAt
\* invokes the strategy.
C8_OpenNeverCalls ==
  \A in \in Calls : Blocking => (StepOf(in).kind # "search" /\ StepOf(in).call = {})

\* a retrieve was turned away by the OPEN breaker and no strategy call is running
C8_Witness ==
  /\ last.kind = "blocked"
  /\ last.at = now
  /\ Blocking
  /\ inflight = EmptyBag

\* C9: every cache entry holds a result with ok = true, and a retrieve whose
\* strategy call returns ok = false or throws leaves the cache as it was.
C9_OnlyOkCached ==
  /\ \A k \in DOMAIN cache : cache[k].result.ok
  /\ \A c \in BagToSet(inflight) : \A o \in SearchOutcomes(provider) :
       (o.threw \/ ~o.result.ok) => ResumeStep(c, o).cache = cache

\* a strategy call failed for a fingerprint that has a cache entry
C9_Witness ==
  /\ last.kind \in {"notok", "threw"}
  /\ last.key \in DOMAIN cache

\* the fallback of a call: the entry it read at its start, marked degraded, or
\* the empty degraded result when it read none
FallbackOf(c) ==
  IF c.cached = {} THEN EmptyDegraded
  ELSE Degraded((CHOOSE e \in c.cached : TRUE).result)

OkOutcomes == {o \in SearchOutcomes(provider) : ~o.threw /\ o.result.ok}
FailedOutcomes == {o \in SearchOutcomes(provider) : o.threw \/ ~o.result.ok}

\* C11 as stated: when the search of a suspended call returns ok = true, the
\* breaker is told of the success (CLOSED, failureCount 0), the result is stored
\* under the call's fingerprint stamped with the time of the write, and the call
\* returns the strategy's result as it is.
C11_StampedAtWrite ==
  \A c \in BagToSet(inflight) : \A o \in OkOutcomes :
    /\ ResumeStep(c, o).cb.state = "CLOSED"
    /\ ResumeStep(c, o).cb.failureCount = 0
    /\ ResumeStep(c, o).cache[c.cacheKey] = [at |-> now, result |-> o.result]
    /\ ResumeStep(c, o).ret = o.result

\* C12: a reported failure adds exactly one to failureCount; below the threshold
\* the breaker is and stays CLOSED and permits calls; the failure that makes the
\* count reach the threshold opens it with nextTryAt = now + cooldown.
C12_OpensAtThreshold ==
  /\ circuitBreaker.failureCount < threshold
       => (circuitBreaker.state = "CLOSED" /\ CanTry(circuitBreaker, now).ret)
  /\ \A c \in BagToSet(inflight) : \A o \in FailedOutcomes :
       LET cb == ResumeStep(c, o).cb IN
       /\ cb.failureCount = circuitBreaker.failureCount + 1
       /\ cb.failureCount < threshold
            => (cb.state = "CLOSED" /\ cb.nextTryAt = circuitBreaker.nextTryAt)
       /\ cb.failureCount = threshold
            => (cb.state = "OPEN" /\ cb.nextTryAt = now + cooldownMs)

\* the third failure in a row has just opened the breaker, after the clock moved
C12_Witness ==
  /\ last.kind \in {"notok", "threw"}
  /\ circuitBreaker.state = "OPEN"
  /\ circuitBreaker.failureCount = threshold
  /\ now > 0
  /\ circuitBreaker.nextTryAt = now + cooldownMs

\* the suspended calls that were admitted as probes: since nextTryAt was last
\* set the breaker has been OPEN and then HALF_OPEN, so while it is HALF_OPEN
\* these are the calls that started at or after nextTryAt
Probes == {c \in BagToSet(inflight) : c.now >= circuitBreaker.nextTryAt}
ProbeCount == BagCardinality([c \in Probes |-> CopiesIn(c, inflight)])

\* C13 as stated: while OPEN canTry() is false before nextTryAt and flips to
\* HALF_OPEN and returns true from nextTryAt on; while HALF_OPEN (the probe's
\* outcome is not reported yet) canTry() is false, and at most one probe call is
\* suspended in the strategy.
C13_SingleProbe ==
  /\ (circuitBreaker.state = "OPEN" /\ now < circuitBreaker.nextTryAt)
       => ~CanTry(circuitBreaker, now).ret
  /\ (circuitBreaker.state = "OPEN" /\ now >= circuitBreaker.nextTryAt)
       => /\ CanTry(circuitBreaker, now).ret
          /\ CanTry(circuitBreaker, now).cb.state = "HALF_OPEN"
  /\ circuitBreaker.state = "HALF_OPEN"
       => /\ ProbeCount <= 1
          /\ ProbeCount = 1 => ~CanTry(circuitBreaker, now).ret

\* C14: while HALF_OPEN, a success reported by a suspended call leaves the
\* breaker CLOSED with failureCount 0, and a failure adds one to failureCount
\* and leaves it OPEN with nextTryAt = now + cooldown.
C14_HalfOpenDecides ==
  circuitBreaker.state = "HALF_OPEN"
    => /\ circuitBreaker.failureCount >= threshold
       /\ \A c \in BagToSet(inflight) :
            /\ \A o \in OkOutcomes :
                 /\ ResumeStep(c, o).cb.state = "CLOSED"
                 /\ ResumeStep(c, o).cb.failureCount = 0
            /\ \A o \in FailedOutcomes :
                 /\ ResumeStep(c, o).cb.state = "OPEN"
                 /\ ResumeStep(c, o).cb.failureCount = circuitBreaker.failureCount + 1
                 /\ ResumeStep(c, o).cb.nextTryAt = now + cooldownMs

\* the breaker is HALF_OPEN, later than the time it was set to reopen at, with
\* a probe suspended in the strategy whose outcome is still to be reported
C14_Witness ==
  /\ circuitBreaker.state = "HALF_OPEN"
  /\ now > circuitBreaker.nextTryAt
  /\ ProbeCount = 1

\* C15: in every breaker state a reported success gives failureCount 0 and
\* state CLOSED, and failureCount never exceeds the number of failures a
\* breaker can have been told of without a success: it is 0 right after one.
C15_SuccessResets ==
  /\ OnSuccess(circuitBreaker).failureCount = 0
  /\ OnSuccess(circuitBreaker).state = "CLOSED"
  /\ \A c \in BagToSet(inflight) : \A o \in OkOutcomes :
       ResumeStep(c, o).cb =
         [state |-> "CLOSED", failureCount |-> 0, nextTryAt |-> circuitBreaker.nextTryAt]
  /\ last.kind = "ok" => (circuitBreaker.failureCount = 0 /\ circuitBreaker.state = "CLOSED")

\* a success was reported while the breaker was OPEN with its cooldown running
\* (by a call that was already suspended), and the breaker is CLOSED with count 0
C15_Witness ==
  /\ last.kind = "ok"
  /\ circuitBreaker.state = "CLOSED"
  /\ circuitBreaker.failureCount = 0
  /\ now < circuitBreaker.nextTryAt

\* a result carries the degraded mark
IsDegraded(r) == "degraded" \in DOMAIN r /\ r.degraded

\* C16: every result retrieve returns with ok = false has an empty snippets
\* sequence, unless it is a stored result substituted as the fallback: the
\* results returned without a stored entry to substitute (by a call turned away
\* by the breaker, or by a call whose strategy failed) are empty when not ok.
C16_NotOkIsEmpty ==
  /\ \A in \in Calls : \A r \in StepOf(in).ret :
       (KeyOf(in) \notin DOMAIN cache /\ ~r.ok) => r.snippets = <<>>
  /\ \A c \in BagToSet(inflight) : \A o \in SearchOutcomes(provider) :
       (c.cached = {} /\ ~ResumeStep(c, o).ret.ok) => ResumeStep(c, o).ret.snippets = <<>>
  /\ \A r \in last.ret :
       (last.key \notin DOMAIN cache /\ ~r.ok) => r.snippets = <<>>

\* a call whose strategy returned ok = false, with nothing stored under its
\* fingerprint, returned a result with ok = false and no snippets
C16_Witness ==
  /\ last.kind = "notok"
  /\ last.key \notin DOMAIN cache
  /\ \E r \in last.ret : ~r.ok /\ r.snippets = <<>>

\* C17: a result is marked degraded exactly when it did not come from a fresh,
\* successful strategy call: what a call turned away by the breaker returns and
\* what a call whose strategy failed returns (the stored result or the empty
\* one) is marked, and what a fresh cache hit returns and what a call returns
\* from its own successful strategy call is not.
C17_DegradedExactly ==
  /\ \A in \in Calls : \A r \in StepOf(in).ret :
       /\ StepOf(in).kind = "blocked" => IsDegraded(r)
       /\ StepOf(in).kind = "hit" => ~IsDegraded(r)
  /\ \A c \in BagToSet(inflight) :
       /\ \A o \in FailedOutcomes : IsDegraded(ResumeStep(c, o).ret)
       /\ \A o \in OkOutcomes : ~IsDegraded(ResumeStep(c, o).ret)
  /\ \A r \in last.ret :
       IsDegraded(r) <=> last.kind \in {"blocked", "notok", "threw"}

\* a call whose strategy returned ok = false returned the stored result, marked
\* degraded, while the entry it was copied from is stored unmarked
C17_Witness ==
  /\ last.kind = "notok"
  /\ last.key \in DOMAIN cache
  /\ ~IsDegraded(cache[last.key].result)
  /\ \E r \in last.ret : r.ok /\ IsDegraded(r)

\* the call of search has run to its end
SearchDone == search.pc = "done"

\* C18 as stated: the literal-text strategy never completes its search by
\* throwing, and with the store unreachable or the query failing it returns a
\* result with ok = false.
C18_PgIlikeReportsFailure ==
  search.driver = "pgIlike"
    => /\ \A o \in search.out : ~o.threw
       /\ (SearchDone /\ search.url /\ search.query.failed)
            => \E o \in search.out : ~o.threw /\ ~o.result.ok

\* C19: the vector strategy never completes its search by throwing, and when
\* the embedding call fails (no API key, rejected fetch, non-ok status, bad
\* payload) or the similarity query fails it returns ok = false with no snippets.
C19_VectorFailsClosed ==
  search.driver = "vectorDB"
    => /\ \A o \in search.out \cup search.pending : ~o.threw
       /\ (SearchDone /\ (EmbedText(search.apiKey, search.embed).threw \/ search.query.failed))
            => /\ search.out # {}
               /\ \A o \in search.out : ~o.result.ok /\ o.result.snippets = <<>>

\* the vector strategy ran with POSTGRES_URL set and no API key, and returned
\* ok = false
C19_Witness ==
  /\ search.driver = "vectorDB"
  /\ SearchDone
  /\ search.url
  /\ ~search.apiKey
  /\ \E o \in search.out : ~o.threw /\ ~o.result.ok

\* C20: every snippet the vector strategy returns has 0 <= confidence <= 1 and
\* confidence = max(0, 1 - distance) for the distance of its row.
C20_ConfidenceBound ==
  search.driver = "vectorDB"
    => \A o \in search.out :
         (~o.threw /\ o.result.ok)
           => /\ DOMAIN o.result.snippets = DOMAIN search.query.rows
              /\ \A i \in DOMAIN o.result.snippets :
                   LET conf == o.result.snippets[i].confidence
                       d == search.query.rows[i].distance
                   IN  /\ 0 <= conf /\ conf <= One
                       /\ conf = IF One - d >= 0 THEN One - d ELSE 0

\* the vector strategy returned a snippet of a row nearer than 1 with a
\* confidence above 0 and a snippet of a row farther than 1 with confidence 0
C20_Witness ==
  /\ search.driver = "vectorDB"
  /\ SearchDone
  /\ \E o \in search.out :
       /\ ~o.threw /\ o.result.ok
       /\ \E i, j \in DOMAIN o.result.snippets :
            /\ search.query.rows[i].distance < One
            /\ o.result.snippets[i].confidence > 0
            /\ search.query.rows[j].distance > One
            /\ o.result.snippets[j].confidence = 0

\* a call of the fingerprint is suspended in the strategy
Pending(key) == \E c \in BagToSet(inflight) : c.cacheKey = key

\* C27 as stated: a retrieve issued while a call of the same fingerprint is
\* suspended in the strategy, with no fresh entry stored yet, does not invoke
\* the strategy again.
C27_BurstInvokesOnce ==
  \A in \in Calls :
    (Pending(KeyOf(in)) /\ ~HasFresh(in))
      => (StepOf(in).kind # "search" /\ StepOf(in).call = {})

\* C28 as stated: when the strategy call of a suspended retrieve fails and the
\* cache holds an entry for its fingerprint at that moment, the call returns
\* that entry's result with degraded = true.
C28_FallbackReadsCacheAtFailure ==
  \A c \in BagToSet(inflight) : \A o \in FailedOutcomes :
    c.cacheKey \in DOMAIN cache
      => ResumeStep(c, o).ret = Degraded(cache[c.cacheKey].result)

\* C29: retrieve never deletes a cache entry. Up to its await it leaves the
\* cache as it is; after it, every entry is still there, the entries of other
\* fingerprints are unchanged, and the entry of its own fingerprint changes only
\* on a successful strategy call. An entry older than the TTL is kept too.
C29_NoEviction ==
  /\ \A in \in Queries \X HintsValues : StepOf(in).cache = cache
  /\ \A c \in BagToSet(inflight) : \A o \in SearchOutcomes(provider) :
       LET after == ResumeStep(c, o).cache IN
       /\ DOMAIN cache \subseteq DOMAIN after
       /\ \A k \in DOMAIN cache : k # c.cacheKey => after[k] = cache[k]
       /\ (c.cacheKey \in DOMAIN cache /\ after[c.cacheKey] # cache[c.cacheKey])
            => (~o.threw /\ o.result.ok)
       /\ o \in FailedOutcomes => after = cache

\* a retrieve found an entry older than the TTL, its strategy call failed, and
\* the entry is still stored
C29_Witness ==
  /\ last.kind \in {"notok", "threw"}
  /\ last.key \in DOMAIN cache
  /\ last.at - cache[last.key].at >= ttlMs
  /\ \E r \in last.ret : r.ok

\* C30: with calls issued one at a time against a strategy that fails, once
\* the breaker has opened two consecutive strategy invocations are at least the
\* cooldown apart. A failure reported once failureCount is at threshold - 1 or
\* more leaves the breaker OPEN until at least cooldown after the start of the
\* failed invocation; with failureCount at the threshold or more and no call
\* suspended, a retrieve invokes the strategy only from nextTryAt on, and at
\* least the cooldown after the start of the failed invocation that settled last.
C30_OnePerCooldown ==
  /\ \A c \in BagToSet(inflight) : \A o \in FailedOutcomes :
       (BagCardinality(inflight) = 1 /\ circuitBreaker.failureCount >= threshold - 1)
         => /\ ResumeStep(c, o).cb.state = "OPEN"
            /\ ResumeStep(c, o).cb.nextTryAt >= c.now + cooldownMs
  /\ \A in \in Calls :
       (inflight = EmptyBag /\ circuitBreaker.failureCount >= threshold
          /\ StepOf(in).kind = "search")
         => /\ now >= circuitBreaker.nextTryAt
            /\ last.kind \in {"notok", "threw"} => now - last.at >= cooldownMs

\* no strategy call has succeeded, the breaker opened, a probe failed, and the
\* next probe, the only suspended call, started two cooldowns after the opening
C30_Witness ==
  /\ okHist = EmptyMap
  /\ circuitBreaker.state = "HALF_OPEN"
  /\ circuitBreaker.failureCount = threshold + 1
  /\ BagCardinality(inflight) = 1
  /\ \A c \in BagToSet(inflight) : c.now >= circuitBreaker.nextTryAt /\ c.now >= 2 * cooldownMs

\* C21 as stated: a request repeating a query less than ttl after a request
\* whose strategy call for it succeeded is answered without a strategy call,
\* and the manager a request calls has counted the failure of the request
\* before it.
C21_SharedAcrossRequests ==
  /\ \A c \in BagToSet(inflight) :
       ~(c.cacheKey \in DOMAIN okHist /\ c.now - okHist[c.cacheKey].at < ttlMs)
  /\ (post.pc = "constructed" /\ last.kind \in {"notok", "threw"})
       => circuitBreaker.failureCount >= 1

CallsSince(key, from) == Cardinality({i \in DOMAIN CallsOf(key) : CallsOf(key)[i].at >= from})

\* the start of the window a key's stored entry stands for
WindowStart(key) == limiter.store[key].resetTime - limiter.config.windowMs

\* C23: within one window the first maxRequests calls of a key return
\* success = true with no response, and every further call in that window
\* returns success = false with a response of status 429: the call made last is
\* allowed exactly when it is at most the maxRequests-th call of its window,
\* and so is a call made now.
C23_AllowsUpToLimit ==
  /\ \A r \in limiter.result :
       LET n == CallsSince(r.key, WindowStart(r.key)) IN
       r.key \in DOMAIN limiter.store
         => /\ r.success <=> n <= limiter.config.maxRequests
            /\ r.success => r.response = {}
            /\ ~r.success => (r.response # {} /\ \A resp \in r.response : resp.status = 429)
  /\ \A key \in DOMAIN limiter.store :
       limiter.store[key].resetTime >= now
         => LET res == RateLimitStep(limiter.store, limiter.config, key, now).result
                n == CallsSince(key, WindowStart(key)) + 1
            IN  /\ res.success <=> n <= limiter.config.maxRequests
                /\ res.success => res.response = {}
                /\ ~res.success => (res.response # {} /\ \A resp \in res.response : resp.status = 429)

\* with maxRequests = 2 a key's fourth call in one window was blocked with
\* status 429, after two allowed calls and one blocked call
C23_Witness ==
  /\ limiter.config.maxRequests = 2
  /\ \E r \in limiter.result :
       /\ ~r.success
       /\ r.key \in DOMAIN limiter.store
       /\ \E resp \in r.response : resp.status = 429
       /\ CallsSince(r.key, WindowStart(r.key)) = 4
       /\ CallsOf(r.key)[1].success /\ CallsOf(r.key)[2].success /\ ~CallsOf(r.key)[3].success

\* C24 as stated: a blocked response produced with includeHeaders = true has
\* the X-RateLimit-Limit and Retry-After headers, and X-RateLimit-Limit is the
\* configured maxRequests.
C24_LimitHeader ==
  \A r \in limiter.result : \A resp \in r.response :
    limiter.config.includeHeaders
      => /\ {"X-RateLimit-Limit", "Retry-After"} \subseteq DOMAIN resp.headers
         /\ resp.headers["X-RateLimit-Limit"] = limiter.config.maxRequests

\* what happened in the call of retry, by kind, in order
EventsOf(ev) == SelectSeq(retrier.events, LAMBDA e : e.ev = ev)
Invocations == Len(EventsOf("invoke"))
RetryDone == retrier.pc = "done"

\* retry made at most maxAttempts invocations of fn, numbered in order, each
\* after the one before it settled; it ended with a value exactly when its last
\* invocation resolved, with that invocation's value, all earlier ones having
\* rejected; and it ended with the INTERNAL error exactly when it made
\* maxAttempts invocations and all rejected
RetryBounded ==
  /\ Invocations <= retrier.maxAttempts
  /\ \A i \in 1..Invocations : EventsOf("invoke")[i].n = i
  /\ Len(EventsOf("rejected")) + Len(EventsOf("resolved")) \in {Invocations - 1, Invocations}
  /\ \A i \in DOMAIN retrier.events :
       retrier.events[i].ev = "resolved" => i = Len(retrier.events)
  /\ \A o \in retrier.outcome :
       /\ RetryDone
       /\ o.kind = "returned"
            => /\ o.value = Invocations
               /\ o.value \notin retrier.fails
               /\ \A k \in 1..(o.value - 1) : k \in retrier.fails
       /\ (o.kind = "rejected" /\ o.type = "INTERNAL")
            => /\ Invocations = retrier.maxAttempts
               /\ Len(EventsOf("rejected")) = retrier.maxAttempts
               /\ o.cause = {retrier.maxAttempts}
  /\ (RetryDone /\ Len(EventsOf("rejected")) = retrier.maxAttempts)
       => retrier.outcome = {[kind |-> "rejected", type |-> "INTERNAL",
                              cause |-> {retrier.maxAttempts}]}
  /\ RetryDone => retrier.outcome # {}

\* C25: retry with maxAttempts >= 1 terminates, after at most maxAttempts
\* sequential invocations of fn: it returns the value of the first invocation
\* that succeeds and invokes fn no more, and when all maxAttempts invocations
\* fail it rejects with an AppError of type INTERNAL after exactly maxAttempts.
C25_RetryTerminates == []RetryBounded /\ <>RetryDone

\* a call with maxAttempts = 3 returned the value of its third invocation after
\* two failures
C25_Witness ==
  /\ RetryDone
  /\ retrier.maxAttempts = 3
  /\ retrier.outcome = {[kind |-> "returned", value |-> 3]}
  /\ Invocations = 3

\* the position of an event in the record of the call, 0 when it is not there
PositionOf(ev, n) ==
  IF \E i \in DOMAIN retrier.events : retrier.events[i] = Event(ev, n)
  THEN CHOOSE i \in DOMAIN retrier.events : retrier.events[i] = Event(ev, n)
  ELSE 0

\* C26: onRetry is called exactly once after each failed attempt except the
\* last, with attempt numbers 1, 2, ..., in increasing order, at most
\* maxAttempts - 1 of them, each right after the failure of that attempt and
\* before the next attempt starts; it is not called after the final failed
\* attempt nor after a success.
C26_OnRetryOrder ==
  retrier.onRetry # "absent"
    => /\ \A i \in DOMAIN EventsOf("onRetry") : EventsOf("onRetry")[i].n = i
       /\ Len(EventsOf("onRetry")) <= retrier.maxAttempts - 1
       /\ \A i \in DOMAIN retrier.events :
            /\ retrier.events[i].ev = "onRetry"
                 => (i > 1 /\ retrier.events[i - 1] = Event("rejected", retrier.events[i].n))
            /\ (retrier.events[i].ev = "rejected" /\ retrier.events[i].n < retrier.maxAttempts)
                 => (i < Len(retrier.events)
                       /\ retrier.events[i + 1] = Event("onRetry", retrier.events[i].n))
            /\ (retrier.events[i].ev = "rejected" /\ retrier.events[i].n = retrier.maxAttempts)
                 => i = Len(retrier.events)
            /\ retrier.events[i].ev = "resolved" => i = Len(retrier.events)
            /\ (retrier.events[i].ev = "invoke" /\ retrier.events[i].n > 1)
                 => /\ PositionOf("onRetry", retrier.events[i].n - 1) > 0
                    /\ PositionOf("onRetry", retrier.events[i].n - 1) < i

\* a call with maxAttempts = 3 failed three times and onRetry was called with 1
\* and then with 2
C26_Witness ==
  /\ RetryDone
  /\ retrier.maxAttempts = 3
  /\ retrier.onRetry = "returns"
  /\ Len(EventsOf("rejected")) = 3
  /\ EventsOf("onRetry") = <<Event("onRetry", 1), Event("onRetry", 2)>>

\* C31: a call made after the window expired (now > resetTime) starts a new
\* window, count 1 and resetTime = now + windowMs, and is allowed, whatever the
\* count of the old window; a call made at now = resetTime belongs to the old
\* window: it adds one to its count, keeps its resetTime and is allowed only
\* within maxRequests.
C31_WindowRestart ==
  \A key \in DOMAIN limiter.store :
    LET entry == limiter.store[key]
        s == RateLimitStep(limiter.store, limiter.config, key, now)
    IN  /\ now > entry.resetTime
             => /\ s.store[key] = [count |-> 1, resetTime |-> now + limiter.config.windowMs]
                /\ s.result = [success |-> TRUE, response |-> {}]
        /\ now = entry.resetTime
             => /\ s.store[key] = [count |-> entry.count + 1, resetTime |-> entry.resetTime]
                /\ s.result.success <=> entry.count + 1 <= limiter.config.maxRequests

\* a key whose earlier window had a blocked call was allowed again in a new
\* window, which started at that call with count 1
C31_Witness ==
  \E r \in limiter.result :
    /\ r.success
    /\ r.key \in DOMAIN limiter.store
    /\ limiter.store[r.key] = [count |-> 1, resetTime |-> r.at + limiter.config.windowMs]
    /\ \E i \in DOMAIN CallsOf(r.key) : ~CallsOf(r.key)[i].success /\ CallsOf(r.key)[i].at < r.at

\* C32 as stated: for each key, the calls allowed in any interval of length
\* windowMs (taken from an allowed call on) are at most maxRequests.
C32_SlidingLimit ==
  \A key \in DOMAIN limiter.calls :
    \A i \in DOMAIN CallsOf(key) :
      CallsOf(key)[i].success
        => Cardinality({j \in DOMAIN CallsOf(key) :
                          /\ CallsOf(key)[j].success
                          /\ CallsOf(key)[j].at >= CallsOf(key)[i].at
                          /\ CallsOf(key)[j].at < CallsOf(key)[i].at + limiter.config.windowMs})
             <= limiter.config.maxRequests

\* the outcomes of the calls made at the given times for one key, from an
\* empty store and with no cleanup in between
RECURSIVE Replay(_, _, _)
Replay(store, times, key) ==
  IF times = <<>> THEN <<>>
  ELSE LET s == RateLimitStep(store, limiter.config, key, Head(times))
       IN  <<s.result.success>> \o Replay(s.store, Tail(times), key)

\* the store after the calls made at the given times for one key, from an
\* empty store and with no cleanup in between
RECURSIVE ReplayStore(_, _, _)
ReplayStore(store, times, key) ==
  IF times = <<>> THEN store
  ELSE ReplayStore(RateLimitStep(store, limiter.config, key, Head(times)).store,
                   Tail(times), key)

\* C40: the cleanup is transparent: the outcome of every call made so far, with
\* the cleanup having run at any moments in between, is the outcome the same
\* calls have with no cleanup at all; and the cleanup removes only entries with
\* resetTime < now: an entry still stored is the one the calls alone produce,
\* and a missing one had its resetTime before now.
C40_CleanupTransparent ==
  /\ \A key \in DOMAIN limiter.calls :
       Replay(EmptyMap, [i \in DOMAIN CallsOf(key) |-> CallsOf(key)[i].at], key)
         = [i \in DOMAIN CallsOf(key) |-> CallsOf(key)[i].success]
  /\ \A key \in DOMAIN limiter.calls :
       LET kept == ReplayStore(EmptyMap, [i \in DOMAIN CallsOf(key) |-> CallsOf(key)[i].at], key)
       IN  IF key \in DOMAIN limiter.store
           THEN limiter.store[key] = kept[key]
           ELSE kept[key].resetTime < now

\* the cleanup removed the entry of a key whose calls had been blocked, while
\* the entry of the other key, not yet expired, is still stored
C40_Witness ==
  \E key \in DOMAIN limiter.calls :
    /\ key \notin DOMAIN limiter.store
    /\ \E i \in DOMAIN CallsOf(key) : ~CallsOf(key)[i].success
    /\ \E other \in DOMAIN limiter.store : limiter.store[other].resetTime >= now

\* a^n for n >= 0
RECURSIVE Pow(_, _)
Pow(a, n) == IF n = 0 THEN 1 ELSE a * Pow(a, n - 1)

\* C33 as stated: the k-th wait of a call of retry, the one after failed
\* attempt k, lasts min(initialDelay * backoffMultiplier^(k-1), maxDelay); no
\* wait is longer than maxDelay; and there are at most maxAttempts - 1 waits,
\* none after the final failed attempt.
C33_BackoffCapped ==
  /\ \A k \in DOMAIN EventsOf("wait") :
       /\ EventsOf("wait")[k].n
            = MathMin(retrier.initialDelay * Pow(retrier.backoffMultiplier, k - 1),
                      retrier.maxDelay)
       /\ EventsOf("wait")[k].n <= retrier.maxDelay
  /\ Len(EventsOf("wait")) <= retrier.maxAttempts - 1
  /\ \A i \in DOMAIN retrier.events :
       (retrier.events[i].ev = "rejected" /\ retrier.events[i].n = retrier.maxAttempts)
         => i = Len(retrier.events)

\* C35 as stated: a cache write never replaces an entry by one stamped
\* earlier: for every suspended call whose strategy call succeeds, the entry
\* it writes is stamped no earlier than the entry stored for its fingerprint.
C35_StampNeverDecreases ==
  \A c \in BagToSet(inflight) : \A o \in OkOutcomes :
    c.cacheKey \in DOMAIN cache
      => ResumeStep(c, o).cache[c.cacheKey].at >= cache[c.cacheKey].at

\* C37 as stated: while the breaker is OPEN, a failure reported by a suspended
\* strategy call leaves nextTryAt as it is.
C37_OpenKeepsNextTry ==
  \A c \in BagToSet(inflight) : \A o \in FailedOutcomes :
    circuitBreaker.state = "OPEN"
      => ResumeStep(c, o).cb.nextTryAt = circuitBreaker.nextTryAt

\* C38: serving a stored entry as a degraded fallback leaves the cache as it
\* is, both when the breaker turns the call away and when its strategy call
\* fails; no stored result carries the degraded mark, so every fresh hit returns
\* an unmarked result; and an entry older than the TTL stays older than the TTL.
C38_FallbackLeavesCache ==
  /\ \A in \in Calls :
       StepOf(in).kind = "blocked" => StepOf(in).cache = cache
  /\ \A c \in BagToSet(inflight) : \A o \in FailedOutcomes :
       /\ ResumeStep(c, o).cache = cache
       /\ c.cached # {} => IsDegraded(ResumeStep(c, o).ret)
  /\ \A k \in DOMAIN cache : ~IsDegraded(cache[k].result)
  /\ \A in \in Calls :
       StepOf(in).kind = "hit" => \A r \in StepOf(in).ret : ~IsDegraded(r)
  /\ \A in \in Calls :
       (HasStale(in) /\ StepOf(in).kind = "blocked") => ~IsFresh(MapGet(StepOf(in).cache, KeyOf(in)), now)

\* a call turned away by the breaker returned the stored result, older than the
\* TTL, marked degraded, and the entry is stored as before, unmarked and stale
C38_Witness ==
  /\ last.kind = "blocked"
  /\ last.at = now
  /\ last.key \in DOMAIN cache
  /\ ~IsDegraded(cache[last.key].result)
  /\ \A r \in last.ret : IsDegraded(r) /\ r.snippets = cache[last.key].result.snippets
  /\ now - cache[last.key].at >= ttlMs

\* C39: clearCache removes every entry and leaves the breaker (state,
\* failureCount, nextTryAt), the suspended calls and the clock as they are; and
\* with the cache empty and the breaker OPEN before nextTryAt, a retrieve of any
\* fingerprint returns { ok: false, degraded: true, snippets: [] } without
\* calling the strategy.
C39_ClearCacheFrame ==
  /\ [][(cache # EmptyMap /\ cache' = EmptyMap)
          => /\ circuitBreaker' = circuitBreaker
             /\ inflight' = inflight
             /\ now' = now]_vars
  /\ [](\A in \in Calls :
          (cache = EmptyMap /\ Blocking)
            => (StepOf(in).kind = "blocked" /\ StepOf(in).ret = {EmptyDegraded}))

\* clearCache ran while the breaker was OPEN with its cooldown running, and a
\* retrieve after it was answered with the empty degraded result
C39_Witness ==
  /\ cache = EmptyMap
  /\ okHist = EmptyMap
  /\ Blocking
  /\ last.kind = "blocked"
  /\ last.ret = {EmptyDegraded}
  /\ last.at > 0

\* C34: in every state the breaker reaches, whatever the order of canTry,
\* onSuccess and onFailure: CLOSED implies failureCount < threshold, and OPEN or
\* HALF_OPEN implies failureCount >= threshold.
C34_StateMatchesCount ==
  /\ circuitBreaker.state = "CLOSED" => circuitBreaker.failureCount < threshold
  /\ circuitBreaker.state \in {"OPEN", "HALF_OPEN"}
       => circuitBreaker.failureCount >= threshold

\* a probing breaker that counted failures beyond the threshold, with no
\* retrieve call involved
C34_Witness ==
  /\ circuitBreaker.state = "HALF_OPEN"
  /\ circuitBreaker.failureCount > threshold
  /\ last = NoCall
  /\ inflight = EmptyBag

\* C36: if retrieve calls that miss the fresh cache keep arriving, time passes
\* nextTryAt, and from some point on no strategy call fails (no step raises
\* failureCount), then the breaker is eventually CLOSED for good; in
\* particular an OPEN breaker returns to CLOSED and stays there.
C36_Recovers ==
  ( /\ []<><<\E in \in Calls : StepOf(in).kind # "hit" /\ Retrieve(in[1], in[2])>>_vars
    /\ []<>(now >= circuitBreaker.nextTryAt)
    /\ <>[][circuitBreaker'.failureCount <= circuitBreaker.failureCount]_vars )
  => <>[](circuitBreaker.state = "CLOSED")

\* the breaker opened, its cooldown passed, a probe was let through and its
\* success closed the breaker, which a later call found closed
C36_Witness ==
  /\ circuitBreaker.state = "CLOSED"
  /\ circuitBreaker.failureCount = 0
  /\ circuitBreaker.nextTryAt > 0
  /\ now > circuitBreaker.nextTryAt
  /\ last.kind = "ok"
  /\ last.at > circuitBreaker.nextTryAt

====
